---- MODULE Spec2Model ----
(***************************************************************************)
(* Expense Tracker API (src/main.py, src/schemas.py) as a state machine.   *)
(*                                                                         *)
(* Conventions of the model                                                *)
(*  - a Python str is a sequence of one-character strings;                 *)
(*  - an optional / BSON value is a tagged record: None, Str(s), ObjId(h); *)
(*  - a datetime is [y, m, d, s] (s = second of the day), compared          *)
(*    lexicographically;                                                    *)
(*  - a money amount (a Python float) is an exact integer count of          *)
(*    thousandths, so that round(x, 2) is a real conversion; arithmetic is  *)
(*    exact (binary floating point error is not modelled);                  *)
(*  - every handler is one atomic action that leaves its HTTP response in   *)
(*    resp; the racing list_categories of SpecRace is split at its store    *)
(*    operations.                                                           *)
(***************************************************************************)
EXTENDS Integers, Sequences, FiniteSets, TLC

VARIABLES db, category, expense, budget, nextId, clock, resp, written, pc, seen

vars == <<db, category, expense, budget, nextId, clock, resp, written, pc, seen>>

----------------------------------------------------------------------------
(* Bounds of the model *)

\* store-assigned identifiers available to one run
MaxIds == 2
\* store-assigned identifiers available to one run of the seeding race
MaxRaceIds == 15

----------------------------------------------------------------------------
(* Values *)

None == [t |-> "null", v |-> <<>>]
Str(s) == [t |-> "str", v |-> s]
ObjId(h) == [t |-> "oid", v |-> h]

\* Python truthiness of an optional string / BSON value
Truthy(x) == x.t = "oid" \/ (x.t = "str" /\ x.v # <<>>)

Rep(c, n) == [i \in 1..n |-> c]

Digits == {"0", "1", "2", "3", "4", "5", "6", "7", "8", "9"}
HexChars == Digits \cup {"a", "b", "c", "d", "e", "f", "A", "B", "C", "D", "E", "F"}

DigitVal(c) ==
  CASE c = "0" -> 0 [] c = "1" -> 1 [] c = "2" -> 2 [] c = "3" -> 3 [] c = "4" -> 4
    [] c = "5" -> 5 [] c = "6" -> 6 [] c = "7" -> 7 [] c = "8" -> 8 [] c = "9" -> 9

Lower(c) ==
  CASE c = "A" -> "a" [] c = "B" -> "b" [] c = "C" -> "c" [] c = "D" -> "d"
    [] c = "E" -> "e" [] c = "F" -> "f" [] c = "L" -> "l" [] c = "U" -> "u"
    [] OTHER -> c

LowerStr(s) == [i \in 1..Len(s) |-> Lower(s[i])]

\* bson.ObjectId(str): 24 hexadecimal characters, either letter case
ObjectIdValid(s) == Len(s) = 24 /\ \A i \in 1..Len(s) : s[i] \in HexChars
ObjectId(s) == ObjId(LowerStr(s))

\* the k-th identifier the store assigns
HexDigit(n) == <<"0", "1", "2", "3", "4", "5", "6", "7", "8", "9", "a", "b", "c", "d", "e", "f">>[n + 1]
NewObjectId(k) == ObjId(Rep("0", 22) \o <<HexDigit((k \div 16) % 16), HexDigit(k % 16)>>)

----------------------------------------------------------------------------
(* datetime *)

DT(y, m, d, s) == [y |-> y, m |-> m, d |-> d, s |-> s]

DtLT(a, b) ==
  \/ a.y < b.y
  \/ a.y = b.y /\ a.m < b.m
  \/ a.y = b.y /\ a.m = b.m /\ a.d < b.d
  \/ a.y = b.y /\ a.m = b.m /\ a.d = b.d /\ a.s < b.s
DtLE(a, b) == a = b \/ DtLT(a, b)

IsLeap(y) == (y % 4 = 0 /\ y % 100 # 0) \/ y % 400 = 0
DaysInMonth(y, m) ==
  IF m = 2 THEN (IF IsLeap(y) THEN 29 ELSE 28)
  ELSE IF m \in {4, 6, 9, 11} THEN 30 ELSE 31

\* datetime(y, m, d): ValueError outside year 1..9999 or an impossible day
DateOk(y, m, d) ==
  /\ y >= 1 /\ y <= 9999
  /\ m >= 1 /\ m <= 12
  /\ d >= 1 /\ d <= DaysInMonth(y, m)

\* dt + timedelta(days=1); OverflowError past 9999-12-31
AddDayOk(dt) == ~(dt.y = 9999 /\ dt.m = 12 /\ dt.d = 31)
AddDay(dt) ==
  IF dt.d < DaysInMonth(dt.y, dt.m) THEN [dt EXCEPT !.d = @ + 1]
  ELSE IF dt.m < 12 THEN [dt EXCEPT !.m = @ + 1, !.d = 1]
  ELSE [dt EXCEPT !.y = @ + 1, !.m = 1, !.d = 1]

\* dt - timedelta(days=1), for dates after 0001-01-01
SubDay(dt) ==
  IF dt.d > 1 THEN [dt EXCEPT !.d = @ - 1]
  ELSE IF dt.m > 1 THEN [dt EXCEPT !.m = @ - 1, !.d = DaysInMonth(dt.y, dt.m - 1)]
  ELSE [dt EXCEPT !.y = @ - 1, !.m = 12, !.d = 31]

RECURSIVE SubDays(_, _)
SubDays(dt, n) == IF n = 0 THEN dt ELSE SubDays(SubDay(dt), n - 1)

\* date.toordinal() and date.weekday() (Monday = 0)
RECURSIVE DaysBeforeMonth(_, _)
DaysBeforeMonth(y, m) == IF m = 1 THEN 0 ELSE DaysBeforeMonth(y, m - 1) + DaysInMonth(y, m - 1)
ToOrdinal(dt) ==
  LET p == dt.y - 1
  IN  p * 365 + (p \div 4) - (p \div 100) + (p \div 400) + DaysBeforeMonth(dt.y, dt.m) + dt.d
Weekday(dt) == (ToOrdinal(dt) + 6) % 7

Num2(s, i) == DigitVal(s[i]) * 10 + DigitVal(s[i + 1])
Num4(s, i) == Num2(s, i) * 100 + Num2(s, i + 2)

\* datetime.fromisoformat on the date-only form YYYY-MM-DD (midnight of that
\* day); any other string of the input sets used here raises ValueError
IsoDateShape(s) ==
  /\ Len(s) = 10
  /\ \A i \in {1, 2, 3, 4, 6, 7, 9, 10} : s[i] \in Digits
  /\ s[5] = "-" /\ s[8] = "-"
IsoOk(s) == IsoDateShape(s) /\ DateOk(Num4(s, 1), Num2(s, 6), Num2(s, 9))
fromisoformat(s) == DT(Num4(s, 1), Num2(s, 6), Num2(s, 9), 0)

\* the instants datetime.utcnow() returns as the clock advances
Instants == <<DT(2024, 3, 2, 43200), DT(2024, 3, 4, 100)>>
utcnow == Instants[clock]

----------------------------------------------------------------------------
(* Schemas (src/schemas.py): what FastAPI lets through to a handler *)

Cash == <<"c", "a", "s", "h">>
Card == <<"c", "a", "r", "d">>
Bank == <<"b", "a", "n", "k">>
Wallet == <<"w", "a", "l", "l", "e", "t">>
Other == <<"o", "t", "h", "e", "r">>
PaymentMethod == {Cash, Card, Bank, Wallet, Other}

CategoryValid(p) == Len(p.name) >= 1 /\ Len(p.name) <= 50

ExpenseValid(p) ==
  /\ p.amount > 0
  /\ (p.description.t = "str" => Len(p.description.v) <= 300)
  /\ p.payment_method \in PaymentMethod

MonthPattern(s) ==
  /\ Len(s) = 7
  /\ \A i \in {1, 2, 3, 4, 6, 7} : s[i] \in Digits
  /\ s[5] = "-"

BudgetValid(p) == MonthPattern(p.month) /\ p.amount > 0

----------------------------------------------------------------------------
(* Responses *)

NoBody == [none |-> TRUE]
NoArgs == [none |-> TRUE]

Reply(op, args, status, detail, docs, body) ==
  [op |-> op, args |-> args, status |-> status, detail |-> detail,
   docs |-> docs, body |-> body]

Ok(op, args, docs, body) == Reply(op, args, 200, "", docs, body)
\* raise HTTPException(status_code, detail)
Fail(op, args, status, detail) == Reply(op, args, status, detail, <<>>, NoBody)
\* request validation failed before the handler ran
Unprocessable(op, args) == Fail(op, args, 422, "validation")
\* an exception no handler catches
Crash(op, args) == Fail(op, args, 500, "Internal Server Error")
NotConfigured(op, args) == Fail(op, args, 500, "Database not configured")

\* create_document without a store: it refuses with the store-missing error
\* before the handler reaches its own db[...] read
CreateWithoutStore(op, args) == NotConfigured(op, args)

\* to_str_id
to_str_id(doc) ==
  LET d1 == IF "_id" \in DOMAIN doc
            THEN [f \in (DOMAIN doc \ {"_id"}) \cup {"id"} |->
                    IF f = "id" THEN doc["_id"].v ELSE doc[f]]
            ELSE doc
  IN  IF "category_id" \in DOMAIN d1 /\ Truthy(d1["category_id"]) /\ d1["category_id"].t = "oid"
      THEN [d1 EXCEPT !["category_id"] = Str(@.v)]
      ELSE d1

\* create_document(collection, data): the inserted document
create_document(data, id) ==
  [f \in DOMAIN data \cup {"_id"} |-> IF f = "_id" THEN id ELSE data[f]]

\* update_one(..., {"$set": data | {"updated_at": now}}) applied to one document
SetFields(doc, data, now) ==
  [f \in DOMAIN doc \cup DOMAIN data \cup {"updated_at"} |->
     IF f = "updated_at" THEN now
     ELSE IF f \in DOMAIN data THEN data[f] ELSE doc[f]]

----------------------------------------------------------------------------
Init ==
  /\ db = "ok"
  /\ category = {}
  /\ expense = {}
  /\ budget = {}
  /\ nextId = 0
  /\ clock = 1
  /\ resp = Fail("none", NoArgs, 0, "")
  /\ written = {}
  /\ pc = [w \in {1, 2} |-> "idle"]
  /\ seen = [w \in {1, 2} |-> {}]

----------------------------------------------------------------------------
(* Category endpoints *)

DEFAULT_CATEGORIES ==
  <<[name |-> <<"F", "o", "o", "d">>, icon |-> Str(<<"U", "t", "e", "n", "s", "i", "l", "s">>),
     color |-> Str(<<"r", "o", "s", "e">>), is_custom |-> FALSE],
    [name |-> <<"T", "r", "a", "n", "s", "p", "o", "r", "t">>, icon |-> Str(<<"C", "a", "r">>),
     color |-> Str(<<"s", "k", "y">>), is_custom |-> FALSE],
    [name |-> <<"B", "i", "l", "l", "s">>, icon |-> Str(<<"R", "e", "c", "e", "i", "p", "t">>),
     color |-> Str(<<"a", "m", "b", "e", "r">>), is_custom |-> FALSE],
    [name |-> <<"S", "h", "o", "p", "p", "i", "n", "g">>, icon |-> Str(<<"S", "h", "o", "p", "p", "i", "n", "g", "C", "a", "r", "t">>),
     color |-> Str(<<"v", "i", "o", "l", "e", "t">>), is_custom |-> FALSE],
    [name |-> <<"H", "e", "a", "l", "t", "h">>, icon |-> Str(<<"H", "e", "a", "r", "t">>),
     color |-> Str(<<"e", "m", "e", "r", "a", "l", "d">>), is_custom |-> FALSE],
    [name |-> <<"E", "n", "t", "e", "r", "t", "a", "i", "n", "m", "e", "n", "t">>, icon |-> Str(<<"M", "u", "s", "i", "c">>),
     color |-> Str(<<"i", "n", "d", "i", "g", "o">>), is_custom |-> FALSE],
    [name |-> <<"T", "r", "a", "v", "e", "l">>, icon |-> Str(<<"P", "l", "a", "n", "e">>),
     color |-> Str(<<"c", "y", "a", "n">>), is_custom |-> FALSE]>>

\* insert_many(DEFAULT_CATEGORIES): the documents inserted when the next free
\* identifier is k
SeedDocs(k) ==
  {create_document(DEFAULT_CATEGORIES[i], NewObjectId(k + i - 1)) :
     i \in 1..Len(DEFAULT_CATEGORIES)}

HexVal(c) == CHOOSE n \in 0..15 : HexDigit(n) = c
OidRank(oid) == HexVal(oid.v[23]) * 16 + HexVal(oid.v[24])

\* find({}) without a sort: the documents in insertion order
RECURSIVE NaturalOrder(_)
NaturalOrder(S) ==
  IF S = {} THEN <<>>
  ELSE LET first == CHOOSE x \in S : \A y \in S : OidRank(x["_id"]) <= OidRank(y["_id"])
       IN  <<first>> \o NaturalOrder(S \ {first})

StrIds(o) == [i \in 1..Len(o) |-> to_str_id(o[i])]

\* seeding whatever was read (mutant of SeedsOn)
SeedsAlways(items) == TRUE

\* whether the handler seeds: the collection it has just read is empty
SeedsOn(items) == items = {}

list_categories ==
  /\ IF db = "none"
     THEN /\ resp' = NotConfigured("list_categories", NoArgs)
          /\ UNCHANGED <<category, nextId>>
     ELSE IF SeedsOn(category)
     THEN /\ nextId + Len(DEFAULT_CATEGORIES) <= MaxRaceIds
          /\ category' = category \cup SeedDocs(nextId)
          /\ nextId' = nextId + Len(DEFAULT_CATEGORIES)
          /\ resp' = Ok("list_categories", NoArgs, StrIds(NaturalOrder(category')), NoBody)
     ELSE /\ resp' = Ok("list_categories", NoArgs, StrIds(NaturalOrder(category)), NoBody)
          /\ UNCHANGED <<category, nextId>>
  /\ UNCHANGED <<db, expense, budget, clock, written, pc, seen>>

\* list_categories of request thread w, one store operation at a time:
\* items = list(find({}))
ListFind(w) ==
  /\ db = "ok"
  /\ pc[w] = "idle"
  /\ seen' = [seen EXCEPT ![w] = category]
  /\ pc' = [pc EXCEPT ![w] = "found"]
  /\ resp' = Fail("none", NoArgs, 0, "")
  /\ UNCHANGED <<db, category, expense, budget, nextId, clock, written>>

\* if not items: insert_many(DEFAULT_CATEGORIES)
ListSeed(w) ==
  /\ pc[w] = "found"
  /\ SeedsOn(seen[w])
  /\ nextId + Len(DEFAULT_CATEGORIES) <= MaxRaceIds
  /\ category' = category \cup SeedDocs(nextId)
  /\ nextId' = nextId + Len(DEFAULT_CATEGORIES)
  /\ pc' = [pc EXCEPT ![w] = "seeded"]
  /\ resp' = Fail("none", NoArgs, 0, "")
  /\ UNCHANGED <<db, expense, budget, clock, written, seen>>

\* items = list(find({})) after seeding, or the first read; return
ListReturn(w) ==
  /\ \/ pc[w] = "seeded" /\ resp' = Ok("list_categories", [thread |-> w], StrIds(NaturalOrder(category)), NoBody)
     \/ /\ pc[w] = "found" /\ ~SeedsOn(seen[w])
        /\ resp' = Ok("list_categories", [thread |-> w], StrIds(NaturalOrder(seen[w])), NoBody)
  /\ pc' = [pc EXCEPT ![w] = "idle"]
  /\ seen' = [seen EXCEPT ![w] = {}]
  /\ UNCHANGED <<db, category, expense, budget, nextId, clock, written>>

create_category(p) ==
  LET args == [payload |-> p]
      doc == create_document(p, NewObjectId(nextId))
  IN  /\ IF ~CategoryValid(p)
         THEN /\ resp' = Unprocessable("create_category", args)
              /\ UNCHANGED <<category, nextId>>
         ELSE IF db = "none"
         THEN /\ resp' = CreateWithoutStore("create_category", args)
              /\ UNCHANGED <<category, nextId>>
         ELSE /\ nextId < MaxIds
              /\ category' = category \cup {doc}
              /\ nextId' = nextId + 1
              /\ resp' = Ok("create_category", args, <<to_str_id(doc)>>, NoBody)
      /\ UNCHANGED <<db, expense, budget, clock, written, pc, seen>>

\* an update that falls on other documents when none matches (mutant of
\* UpdateTargets)
UpdateTargetsLoose(coll, oid) ==
  IF \E c \in coll : c["_id"] = oid THEN {c \in coll : c["_id"] = oid} ELSE coll

\* update_one(filter, {"$set": ...}) with no upsert: the documents it may touch
UpdateTargets(coll, oid) == {c \in coll : c["_id"] = oid}

update_category(category_id, p) ==
  LET args == [id |-> category_id, payload |-> p]
      oid == ObjectId(category_id)
      found == UpdateTargets(category, oid)
  IN  /\ IF ~CategoryValid(p)
         THEN resp' = Unprocessable("update_category", args) /\ UNCHANGED category
         ELSE IF db = "none"
         THEN resp' = NotConfigured("update_category", args) /\ UNCHANGED category
         ELSE IF ~ObjectIdValid(category_id)
         THEN resp' = Fail("update_category", args, 400, "Invalid id") /\ UNCHANGED category
         ELSE IF found = {}
         THEN resp' = Fail("update_category", args, 404, "Category not found") /\ UNCHANGED category
         ELSE \E doc \in found :
                LET new == SetFields(doc, p, utcnow)
                IN  /\ category' = (category \ {doc}) \cup {new}
                    /\ resp' = Ok("update_category", args, <<to_str_id(new)>>, NoBody)
      /\ UNCHANGED <<db, expense, budget, nextId, clock, written, pc, seen>>

delete_category(category_id) ==
  LET args == [id |-> category_id]
      oid == ObjectId(category_id)
      found == {c \in category : c["_id"] = oid}
  IN  /\ IF db = "none"
         THEN resp' = NotConfigured("delete_category", args) /\ UNCHANGED category
         ELSE IF ~ObjectIdValid(category_id)
         THEN resp' = Fail("delete_category", args, 400, "Invalid id") /\ UNCHANGED category
         ELSE IF found = {}
         THEN resp' = Fail("delete_category", args, 404, "Category not found") /\ UNCHANGED category
         ELSE \E doc \in found :
                /\ category' = category \ {doc}
                /\ resp' = Ok("delete_category", args, <<>>, [status |-> "deleted"])
      /\ UNCHANGED <<db, expense, budget, nextId, clock, written, pc, seen>>

----------------------------------------------------------------------------
(* Expense endpoints *)

\* create_expense / update_expense: a category_id that parses is stored as an
\* ObjectId, any other value is stored as it came
ExpenseData(p) ==
  IF Truthy(p.category_id) /\ ObjectIdValid(p.category_id.v)
  THEN [p EXCEPT !.category_id = ObjectId(@.v)]
  ELSE p

create_expense(p) ==
  LET args == [payload |-> p]
      id == NewObjectId(nextId)
      doc == create_document(ExpenseData(p), id)
  IN  /\ IF ~ExpenseValid(p)
         THEN /\ resp' = Unprocessable("create_expense", args)
              /\ UNCHANGED <<expense, nextId, written>>
         ELSE IF db = "none"
         THEN /\ resp' = CreateWithoutStore("create_expense", args)
              /\ UNCHANGED <<expense, nextId, written>>
         ELSE /\ nextId < MaxIds
              /\ expense' = expense \cup {doc}
              /\ nextId' = nextId + 1
              /\ written' = written \cup {[id |-> id, cat |-> p.category_id]}
              /\ resp' = Ok("create_expense", args, <<to_str_id(doc)>>, NoBody)
      /\ UNCHANGED <<db, category, budget, clock, pc, seen>>

get_expense(expense_id) ==
  LET args == [id |-> expense_id]
      oid == ObjectId(expense_id)
      found == {e \in expense : e["_id"] = oid}
  IN  /\ IF ~ObjectIdValid(expense_id)
         THEN resp' = Fail("get_expense", args, 400, "Invalid id")
         ELSE IF db = "none"
         THEN resp' = Crash("get_expense", args)
         ELSE IF found = {}
         THEN resp' = Fail("get_expense", args, 404, "Expense not found")
         ELSE \E doc \in found : resp' = Ok("get_expense", args, <<to_str_id(doc)>>, NoBody)
      /\ UNCHANGED <<db, category, expense, budget, nextId, clock, written, pc, seen>>

update_expense(expense_id, p) ==
  LET args == [id |-> expense_id, payload |-> p]
      oid == ObjectId(expense_id)
      found == UpdateTargets(expense, oid)
  IN  /\ IF ~ExpenseValid(p)
         THEN /\ resp' = Unprocessable("update_expense", args)
              /\ UNCHANGED <<expense, written>>
         ELSE IF ~ObjectIdValid(expense_id)
         THEN /\ resp' = Fail("update_expense", args, 400, "Invalid id")
              /\ UNCHANGED <<expense, written>>
         ELSE IF db = "none"
         THEN /\ resp' = Crash("update_expense", args)
              /\ UNCHANGED <<expense, written>>
         ELSE IF found = {}
         THEN /\ resp' = Fail("update_expense", args, 404, "Expense not found")
              /\ UNCHANGED <<expense, written>>
         ELSE \E doc \in found :
                LET new == SetFields(doc, ExpenseData(p), utcnow)
                IN  /\ expense' = (expense \ {doc}) \cup {new}
                    /\ written' = {w \in written : w.id # oid}
                                    \cup {[id |-> oid, cat |-> p.category_id]}
                    /\ resp' = Ok("update_expense", args, <<to_str_id(new)>>, NoBody)
      /\ UNCHANGED <<db, category, budget, nextId, clock, pc, seen>>

delete_expense(expense_id) ==
  LET args == [id |-> expense_id]
      oid == ObjectId(expense_id)
      found == {e \in expense : e["_id"] = oid}
  IN  /\ IF ~ObjectIdValid(expense_id)
         THEN /\ resp' = Fail("delete_expense", args, 400, "Invalid id")
              /\ UNCHANGED <<expense, written>>
         ELSE IF db = "none"
         THEN /\ resp' = Crash("delete_expense", args)
              /\ UNCHANGED <<expense, written>>
         ELSE IF found = {}
         THEN /\ resp' = Fail("delete_expense", args, 404, "Expense not found")
              /\ UNCHANGED <<expense, written>>
         ELSE \E doc \in found :
                /\ expense' = expense \ {doc}
                /\ written' = {w \in written : w.id # oid}
                /\ resp' = Ok("delete_expense", args, <<>>, [status |-> "deleted"])
      /\ UNCHANGED <<db, category, budget, nextId, clock, pc, seen>>

\* {"$regex": q, "$options": "i"} for a q without regex metacharacters:
\* a case-insensitive substring match
Contains(s, q) ==
  \E i \in 1..(Len(s) - Len(q) + 1) : SubSeq(LowerStr(s), i, i + Len(q) - 1) = LowerStr(q)

\* a filter that never parses the string (mutant of CategoryFilter)
CategoryFilterNoParse(c) == Str(c)

\* filt["category_id"]: the ObjectId when the string parses, else the string
CategoryFilter(c) == IF ObjectIdValid(c) THEN ObjectId(c) ELSE Str(c)

\* date_q["$lte"] = dt + timedelta(days=1)
DateToMatches(date, dt) == DtLE(date, AddDay(dt))

\* whether building the filter raises (fromisoformat, timedelta)
ListFilterOk(qr) ==
  /\ Truthy(qr.date_from) => IsoOk(qr.date_from.v)
  /\ Truthy(qr.date_to) => IsoOk(qr.date_to.v) /\ AddDayOk(fromisoformat(qr.date_to.v))

Matches(e, qr) ==
  /\ Truthy(qr.q) => e.description.t = "str" /\ Contains(e.description.v, qr.q.v)
  /\ Truthy(qr.category_id) => e.category_id = CategoryFilter(qr.category_id.v)
  /\ Truthy(qr.payment_method) => e.payment_method = qr.payment_method.v
  /\ Truthy(qr.date_from) => DtLE(fromisoformat(qr.date_from.v), e.date)
  /\ Truthy(qr.date_to) => DateToMatches(e.date, fromisoformat(qr.date_to.v))

RECURSIVE Orderings(_)
Orderings(S) ==
  IF S = {} THEN {<<>>}
  ELSE UNION {{<<x>> \o t : t \in Orderings(S \ {x})} : x \in S}

\* .sort("date", -1): any order with non-increasing dates (ties in any order)
SortDateDesc(S) ==
  {o \in Orderings(S) : \A i \in 1..(Len(o) - 1) : DtLE(o[i + 1].date, o[i].date)}

\* .limit(n)
Take(o, n) == SubSeq(o, 1, IF Len(o) < n THEN Len(o) ELSE n)

list_expenses(qr) ==
  /\ IF ~(qr.limit >= 1 /\ qr.limit <= 500)
     THEN resp' = Unprocessable("list_expenses", qr)
     ELSE IF db = "none"
     THEN resp' = NotConfigured("list_expenses", qr)
     ELSE IF ~ListFilterOk(qr)
     THEN resp' = Crash("list_expenses", qr)
     ELSE \E o \in SortDateDesc({e \in expense : Matches(e, qr)}) :
            resp' = Ok("list_expenses", qr,
                       [i \in 1..Len(Take(o, qr.limit)) |-> to_str_id(Take(o, qr.limit)[i])],
                       NoBody)
  /\ UNCHANGED <<db, category, expense, budget, nextId, clock, written, pc, seen>>

----------------------------------------------------------------------------
(* Sums and rounding *)

RECURSIVE SumAmounts(_)
SumAmounts(S) ==
  IF S = {} THEN 0
  ELSE LET x == CHOOSE e \in S : TRUE IN x.amount + SumAmounts(S \ {x})

\* round(num / den, 0) as Python rounds a float: to the nearest integer; at an
\* exact half the binary value of the float decides, so either neighbour
RoundDiv(num, den) ==
  LET q == num \div den
      r == num % den
  IN  IF 2 * r < den THEN {q} ELSE IF 2 * r > den THEN {q + 1} ELSE {q, q + 1}

\* round(x, 2) of an amount x in thousandths: the result in hundredths
Round2(x) == RoundDiv(x, 10)

\* a window closed at its end (mutant of InWindow)
InWindowClosed(e, start, end) == DtLE(start, e.date) /\ DtLE(e.date, end)

\* {"$match": {"date": {"$gte": start, "$lt": end}}}
InWindow(e, start, end) == DtLE(start, e.date) /\ DtLT(e.date, end)

\* [datetime(y, m, 1), first day of the next month)
MonthStart(y, m) == DT(y, m, 1, 0)
MonthEndOk(y, m) == IF m = 12 THEN DateOk(y + 1, 1, 1) ELSE DateOk(y, m + 1, 1)
MonthEnd(y, m) == IF m = 12 THEN DT(y + 1, 1, 1, 0) ELSE DT(y, m + 1, 1, 0)

----------------------------------------------------------------------------
(* Budget endpoints *)

\* `find_one(...) if db else None` with a store handle: bool() of the handle
\* is True in older drivers and raises in newer ones
get_budget(month) ==
  LET args == [month |-> month]
      found == {b \in budget : b.month = month}
  IN  /\ IF db = "none"
         THEN resp' = Ok("get_budget", args, <<>>, NoBody)
         ELSE \/ resp' = Crash("get_budget", args)
              \/ /\ found = {}
                 /\ resp' = Ok("get_budget", args, <<>>, NoBody)
              \/ \E doc \in found : resp' = Ok("get_budget", args, <<to_str_id(doc)>>, NoBody)
      /\ UNCHANGED <<db, category, expense, budget, nextId, clock, written, pc, seen>>

\* data = payload.model_dump(); data["month"] = month
BudgetData(month, p) == [p EXCEPT !.month = month]

\* an upsert that never matches (mutant of UpsertTargets)
UpsertTargetsNone(month) == {}

\* update_one({"month": month}, ..., upsert=True): the documents it may update;
\* it inserts when there is none
UpsertTargets(month) == {b \in budget : b.month = month}

\* {"$set": data} on a matched budget document
SetBudget(doc, data) ==
  [f \in DOMAIN doc \cup DOMAIN data |-> IF f \in DOMAIN data THEN data[f] ELSE doc[f]]

\* the document an upsert inserts: data, created_at and a fresh identifier
NewBudget(data, now, id) ==
  [f \in DOMAIN data \cup {"created_at", "_id"} |->
     IF f = "_id" THEN id ELSE IF f = "created_at" THEN now ELSE data[f]]

upsert_budget(month, p) ==
  LET args == [month |-> month, payload |-> p]
      data == BudgetData(month, p)
      found == UpsertTargets(month)
  IN  /\ IF ~BudgetValid(p)
         THEN /\ resp' = Unprocessable("upsert_budget", args)
              /\ UNCHANGED <<budget, nextId>>
         ELSE IF db = "none"
         THEN /\ resp' = NotConfigured("upsert_budget", args)
              /\ UNCHANGED <<budget, nextId>>
         ELSE IF found = {}
         THEN /\ nextId < MaxIds
              /\ budget' = budget \cup {NewBudget(data, utcnow, NewObjectId(nextId))}
              /\ nextId' = nextId + 1
              /\ resp' = Ok("upsert_budget", args,
                            <<to_str_id(NewBudget(data, utcnow, NewObjectId(nextId)))>>, NoBody)
         ELSE \E doc \in found :
                /\ budget' = (budget \ {doc}) \cup {SetBudget(doc, data)}
                /\ \E ret \in {b \in budget' : b.month = month} :
                     resp' = Ok("upsert_budget", args, <<to_str_id(ret)>>, NoBody)
                /\ UNCHANGED nextId
      /\ UNCHANGED <<db, category, expense, clock, written, pc, seen>>

\* alert levels with strict thresholds (mutant of AlertLevel)
AlertLevelStrict(spent, amount) ==
  IF spent * 100 > 100 * amount THEN Str(<<"1", "0", "0">>)
  ELSE IF spent * 100 > 80 * amount THEN Str(<<"8", "0">>)
  ELSE IF spent * 100 > 50 * amount THEN Str(<<"5", "0">>)
  ELSE None

\* the alert level of budget_usage for spent / amount (amount > 0)
AlertLevel(spent, amount) ==
  IF spent * 100 >= 100 * amount THEN Str(<<"1", "0", "0">>)
  ELSE IF spent * 100 >= 80 * amount THEN Str(<<"8", "0">>)
  ELSE IF spent * 100 >= 50 * amount THEN Str(<<"5", "0">>)
  ELSE None

\* round(spent / amount * 100, 2), in hundredths of a percent
PercentOf(spent, amount) == RoundDiv(spent * 10000, amount)

UsageDay == <<"-", "0", "1">>

budget_usage(month) ==
  LET args == [month |-> month]
      iso == month \o UsageDay
      start == fromisoformat(iso)
      end == MonthEnd(start.y, start.m)
      total_spent == SumAmounts({e \in expense : InWindow(e, start, end)})
      found == {b \in budget : b.month = month}
  IN  /\ IF db = "none"
         THEN resp' = NotConfigured("budget_usage", args)
         ELSE IF ~(IsoOk(iso) /\ MonthEndOk(start.y, start.m))
         THEN resp' = Crash("budget_usage", args)
         ELSE \E amount \in (IF found = {} THEN {0} ELSE {b.amount : b \in found}) :
              \E spent \in Round2(total_spent) :
              \E percent \in (IF amount # 0 THEN PercentOf(total_spent, amount) ELSE {0}) :
                resp' = Ok("budget_usage", args, <<>>,
                           [month |-> month, budget |-> amount, spent |-> spent,
                            percent |-> percent,
                            alert |-> IF amount # 0 THEN AlertLevel(total_spent, amount) ELSE None])
      /\ UNCHANGED <<db, category, expense, budget, nextId, clock, written, pc, seen>>

----------------------------------------------------------------------------
(* Dashboard and analytics *)

Day == <<"d", "a", "y">>
Week == <<"w", "e", "e", "k">>
Month == <<"m", "o", "n", "t", "h">>
Year == <<"y", "e", "a", "r">>

\* Query(pattern="^(day|week|month|year)$")
PeriodValid(period) == period \in {Day, Week, Month, Year}

\* the start of the dashboard window
WindowStart(period, now) ==
  IF period = Day THEN DT(now.y, now.m, now.d, 0)
  ELSE IF period = Week THEN SubDays(DT(now.y, now.m, now.d, 0), Weekday(now))
  ELSE IF period = Month THEN DT(now.y, now.m, 1, 0)
  ELSE DT(now.y, 1, 1, 0)

\* {"$match": {"date": {"$gte": start}}}
Since(start) == {e \in expense : DtLE(start, e.date)}

\* {"$group": {"_id": "$category_id", "total": {"$sum": "$amount"}}}
GroupByCategory(S) ==
  {[_id |-> k, total |-> SumAmounts({e \in S : e.category_id = k})] :
     k \in {e.category_id : e \in S}}

\* an ascending sort (mutant of SortTotalDesc)
SortTotalAsc(G) ==
  {o \in Orderings(G) : \A i \in 1..(Len(o) - 1) : o[i].total <= o[i + 1].total}

\* {"$sort": {"total": -1}}: any order with non-increasing totals
SortTotalDesc(G) ==
  {o \in Orderings(G) : \A i \in 1..(Len(o) - 1) : o[i + 1].total <= o[i].total}

\* the category name of a group: looked up only for an ObjectId among the
\* categories
CategoryName(cid) ==
  IF cid.t = "oid" /\ \E c \in category : c["_id"] = cid
  THEN Str((CHOOSE c \in category : c["_id"] = cid).name)
  ELSE None

\* one breakdown_fmt entry; str(cid) if cid else None
BreakdownEntry(item, total) ==
  [category_id |-> IF Truthy(item["_id"]) THEN Str(item["_id"].v) ELSE None,
   category_name |-> CategoryName(item["_id"]),
   total |-> total]

\* the formatted breakdowns of an ordered aggregation result, one per choice
\* of rounding
RECURSIVE BreakdownFmt(_)
BreakdownFmt(o) ==
  IF o = <<>> THEN {<<>>}
  ELSE {<<BreakdownEntry(Head(o), t)>> \o rest :
          t \in Round2(Head(o).total), rest \in BreakdownFmt(Tail(o))}

dashboard(period) ==
  LET args == [period |-> period]
      start == WindowStart(period, utcnow)
  IN  /\ IF ~PeriodValid(period)
         THEN resp' = Unprocessable("dashboard", args)
         ELSE IF db = "none"
         THEN resp' = NotConfigured("dashboard", args)
         ELSE \E total \in Round2(SumAmounts(Since(start))) :
              \E recent \in SortDateDesc(expense) :
              \E o \in SortTotalDesc(GroupByCategory(Since(start))) :
              \E fmt \in BreakdownFmt(o) :
                resp' = Ok("dashboard", args, StrIds(Take(recent, 10)),
                           [period |-> period, total_spent |-> total, breakdown |-> fmt])
      /\ UNCHANGED <<db, category, expense, budget, nextId, clock, written, pc, seen>>

\* str(n) for n >= 0
RECURSIVE DecStr(_)
DecStr(n) == IF n < 10 THEN <<HexDigit(n)>> ELSE DecStr(n \div 10) \o <<HexDigit(n % 10)>>

\* f"{year}-{m:02d}"
MonthLabel(year, m) ==
  DecStr(year) \o <<"-">> \o (IF m < 10 THEN <<"0">> \o DecStr(m) ELSE DecStr(m))

\* the total of month m of the year, before rounding
MonthTotal(year, m) ==
  SumAmounts({e \in expense : InWindow(e, MonthStart(year, m), MonthEnd(year, m))})

\* the results list after the first n months, one per choice of rounding
RECURSIVE MonthlyResults(_, _)
MonthlyResults(year, n) ==
  IF n = 0 THEN {<<>>}
  ELSE {Append(r, [month |-> MonthLabel(year, n), total |-> t]) :
          r \in MonthlyResults(year, n - 1), t \in Round2(MonthTotal(year, n))}

analytics_monthly(year) ==
  LET args == [year |-> year]
  IN  /\ IF db = "none"
         THEN resp' = NotConfigured("analytics_monthly", args)
         ELSE IF ~(DateOk(year, 1, 1) /\ MonthEndOk(year, 12))
         THEN resp' = Crash("analytics_monthly", args)
         ELSE \E results \in MonthlyResults(year, 12) :
                resp' = Ok("analytics_monthly", args, <<>>, [results |-> results])
      /\ UNCHANGED <<db, category, expense, budget, nextId, clock, written, pc, seen>>

\* the clock advances
Tick ==
  /\ clock < Len(Instants)
  /\ clock' = clock + 1
  /\ resp' = Fail("none", NoArgs, 0, "")
  /\ UNCHANGED <<db, category, expense, budget, nextId, written, pc, seen>>

----------------------------------------------------------------------------
(* Requests of the expense specification *)

HexA == Rep("a", 24)
HexUpperA == Rep("A", 24)
HexF == Rep("f", 24)
Malformed == <<"x", "y", "z">>
Lunch == <<"L", "u", "n", "c", "h">>

BasePayload ==
  [amount |-> 1000, category_id |-> None, category_name |-> None,
   description |-> None, payment_method |-> Other, date |-> DT(2024, 1, 31, 43200),
   attachment_url |-> None]

\* the category_id values a client writes or filters by
CategoryIdInputs == {Str(<<>>), Str(HexA), Str(HexUpperA), Str(Malformed)}

\* the last second of a date_to day and the first instant after it
ListDates == {DT(2024, 1, 31, 86399), DT(2024, 2, 1, 0), DT(2024, 3, 1, 0)}

ExpensePayloads ==
  {[BasePayload EXCEPT !.date = d] : d \in ListDates}
    \cup {[BasePayload EXCEPT !.category_id = c] : c \in CategoryIdInputs}
    \cup {[BasePayload EXCEPT !.amount = 0],
          [BasePayload EXCEPT !.description = Str(Lunch), !.payment_method = Cash]}

UpdatePayloads ==
  {[BasePayload EXCEPT !.category_id = Str(HexA)],
   [BasePayload EXCEPT !.amount = 0]}

\* identifiers a client names: one the store assigned, a well-formed one it did
\* not, and a malformed one
IdInputs == {NewObjectId(0).v, HexF, Malformed}

Date(y4, m2, d2) == y4 \o <<"-">> \o m2 \o <<"-">> \o d2
D2024 == <<"2", "0", "2", "4">>
D9999 == <<"9", "9", "9", "9">>

BaseQuery ==
  [q |-> None, category_id |-> None, payment_method |-> None,
   date_from |-> None, date_to |-> None, limit |-> 50]

DateToInputs ==
  {Str(Date(D2024, <<"0", "1">>, <<"3", "1">>)), Str(Date(D2024, <<"0", "2">>, <<"2", "9">>)),
   Str(Date(D2024, <<"0", "2">>, <<"3", "0">>)), Str(Date(D9999, <<"1", "2">>, <<"3", "1">>)),
   Str(<<>>)}

Queries ==
  {[BaseQuery EXCEPT !.category_id = c] : c \in CategoryIdInputs}
    \cup {[BaseQuery EXCEPT !.date_to = d] : d \in DateToInputs}
    \cup {[BaseQuery EXCEPT !.limit = 0],
          [BaseQuery EXCEPT !.category_id = Str(HexA), !.limit = 1],
          [BaseQuery EXCEPT !.q = Str(<<"u", "N">>), !.payment_method = Str(Cash)],
          [BaseQuery EXCEPT !.date_from = Str(Date(D2024, <<"0", "2">>, <<"0", "1">>))],
          [BaseQuery EXCEPT !.date_from = Str(Malformed)]}

NextExpense ==
  \/ \E p \in ExpensePayloads : create_expense(p)
  \/ \E p \in UpdatePayloads : update_expense(NewObjectId(0).v, p)
  \/ \E qr \in Queries : list_expenses(qr)

SpecExpense == Init /\ [][NextExpense]_vars

----------------------------------------------------------------------------
(* Claims about list_expenses and create_expense (SpecExpense) *)

\* the public ids of the documents of the last response
ListedIds == {resp.docs[i].id : i \in 1..Len(resp.docs)}

OnDay(dt, day) == dt.y = day.y /\ dt.m = day.m /\ dt.d = day.d

Min(a, b) == IF a < b THEN a ELSE b

\* C1: list_expenses with date_to = D returns every expense dated on calendar
\* day D and excludes an expense dated exactly at D + 1 day 00:00:00 (the
\* upper bound on date is the exclusive bound < D + 1 day).
C1_DateToExclusive ==
  (/\ resp.op = "list_expenses" /\ resp.status = 200
   /\ Truthy(resp.args.date_to)
   /\ Cardinality(expense) <= resp.args.limit)
  => \A e \in expense :
       LET D == fromisoformat(resp.args.date_to.v)
       IN  /\ OnDay(e.date, D) => e["_id"].v \in ListedIds
           /\ e.date = AddDay(D) => e["_id"].v \notin ListedIds

\* the strings w and c denote the same stored category_id value
SameReference(w, c) ==
  IF ObjectIdValid(c) THEN ObjectIdValid(w) /\ LowerStr(w) = LowerStr(c) ELSE w = c

\* a category_id is stored typed when it parses and as the string otherwise
StoredAsWritten ==
  \A e \in expense : \A w \in written :
    w.id = e["_id"] =>
      IF Truthy(w.cat) /\ ObjectIdValid(w.cat.v)
      THEN e.category_id = ObjId(LowerStr(w.cat.v))
      ELSE e.category_id = w.cat

\* no category_id makes create_expense, update_expense or list_expenses fail
CategoryIdNeverFails ==
  /\ resp.op = "create_expense" /\ ExpenseValid(resp.args.payload) => resp.status = 200
  /\ resp.op = "update_expense" /\ ExpenseValid(resp.args.payload) => resp.status \in {200, 404}
  /\ (/\ resp.op = "list_expenses"
      /\ [resp.args EXCEPT !.category_id = None] \in {BaseQuery, [BaseQuery EXCEPT !.limit = 1]})
     => resp.status = 200

CategoryListing(expected) ==
  /\ ListedIds \subseteq expected
  /\ Len(resp.docs) = Min(resp.args.limit, Cardinality(expected))

\* C7 as stated: for every category_id string c (the empty one included),
\* create_expense and list_expenses never fail because of it, a valid value is
\* stored typed and an invalid one as the string, and list_expenses filtered by
\* c returns (up to limit) exactly the expenses written with category_id c.
C7_ExactlyWrittenWith ==
  /\ StoredAsWritten
  /\ CategoryIdNeverFails
  /\ (/\ resp.op = "list_expenses" /\ resp.status = 200
      /\ resp.args.category_id.t = "str")
     => CategoryListing({w.id.v : w \in {x \in written : x.cat = resp.args.category_id}})

\* C7 amended: as above, for a non-empty c the expenses returned are those
\* written with a category_id denoting the same reference as c (the same
\* string, or the same 24 hex digits up to letter case); an empty c filters
\* nothing.
C7_SameReference ==
  /\ StoredAsWritten
  /\ CategoryIdNeverFails
  /\ (/\ resp.op = "list_expenses" /\ resp.status = 200
      /\ resp.args.category_id.t = "str")
     => IF resp.args.category_id.v = <<>>
        THEN CategoryListing({e["_id"].v : e \in expense})
        ELSE CategoryListing(
               {w.id.v : w \in {x \in written :
                   x.cat.t = "str" /\ SameReference(x.cat.v, resp.args.category_id.v)}})

\* a filter by a valid reference written in the other letter case returns one
\* of two stored expenses
C7_Witness ==
  /\ resp.op = "list_expenses" /\ resp.status = 200
  /\ resp.args.category_id = Str(HexUpperA)
  /\ Len(resp.docs) = 1
  /\ Cardinality(expense) = 2
  /\ \E e \in expense : e.category_id = Str(Malformed)

----------------------------------------------------------------------------
(* Requests of the budget specification *)

M2024_03 == <<"2", "0", "2", "4", "-", "0", "3">>
M2024_12 == <<"2", "0", "2", "4", "-", "1", "2">>
M2024_3 == <<"2", "0", "2", "4", "-", "3">>

\* path values of /api/budgets/{month}
PathMonths == {M2024_03, M2024_12, Malformed}

PerCategory == [t |-> "dict", v |-> {<<HexA, 5000>>}]

BudgetPayloads ==
  {[month |-> M2024_03, amount |-> 3000, per_category |-> None],
   [month |-> M2024_03, amount |-> 25000, per_category |-> PerCategory],
   [month |-> M2024_03, amount |-> 0, per_category |-> None],
   [month |-> M2024_3, amount |-> 3000, per_category |-> None]}

Spend(amount, date) == [BasePayload EXCEPT !.amount = amount, !.date = date]

BudgetExpenses ==
  {Spend(1000, DT(2024, 3, 15, 0)), Spend(1500, DT(2024, 3, 1, 0)),
   Spend(2500, DT(2024, 3, 31, 86399)), Spend(3000, DT(2024, 4, 1, 0)),
   Spend(3000, DT(2024, 3, 15, 0)), Spend(24999, DT(2024, 3, 15, 0)),
   Spend(1004, DT(2024, 12, 31, 86399)), Spend(1000, DT(2025, 1, 1, 0))}

NextBudget ==
  \/ \E m \in PathMonths, p \in BudgetPayloads : upsert_budget(m, p)
  \/ \E m \in PathMonths : get_budget(m)
  \/ \E m \in PathMonths : budget_usage(m)
  \/ \E p \in BudgetExpenses : create_expense(p)
  \/ Tick

SpecBudget == Init /\ [][NextBudget]_vars

----------------------------------------------------------------------------
(* Claims about budgets (SpecBudget) *)

\* C2: after any sequence of budget upserts every stored budget has a month
\* matching ^\d{4}-\d{2}$ and an amount strictly greater than 0.
C2_StoredBudgetsValid ==
  \A b \in budget : MonthPattern(b.month) /\ b.amount > 0

\* the expenses dated in calendar month M (a YYYY-MM string)
SpentIn(M) ==
  SumAmounts({e \in expense : e.date.y = Num4(M, 1) /\ e.date.m = Num2(M, 6)})

\* the stored budget amount of month M, 0 when there is none
BudgetOf(M) ==
  IF \E b \in budget : b.month = M THEN (CHOOSE b \in budget : b.month = M).amount ELSE 0

UsageAnswered == resp.op = "budget_usage" /\ resp.status = 200

\* no budget: budget 0, percent 0, no alert, whatever was spent
UsageWithoutBudget ==
  (UsageAnswered /\ BudgetOf(resp.args.month) = 0)
  => resp.body.budget = 0 /\ resp.body.percent = 0 /\ resp.body.alert = None

\* C4 as stated: budget_usage returns percent = spent / amount * 100 and the
\* alert that this percent gives ("100" from 100, "80" from 80, "50" from 50,
\* else none); without a budget it returns budget 0, percent 0, alert none.
C4_PercentExact ==
  /\ UsageWithoutBudget
  /\ (UsageAnswered /\ BudgetOf(resp.args.month) > 0)
     => LET amount == BudgetOf(resp.args.month)
            spent == SpentIn(resp.args.month)
            percent == resp.body.percent
        IN  /\ resp.body.budget = amount
            /\ percent * amount = spent * 10000
            /\ resp.body.alert =
                 (IF percent >= 10000 THEN Str(<<"1", "0", "0">>)
                  ELSE IF percent >= 8000 THEN Str(<<"8", "0">>)
                  ELSE IF percent >= 5000 THEN Str(<<"5", "0">>)
                  ELSE None)

Abs(x) == IF x < 0 THEN 0 - x ELSE x

\* C4 amended: the percent returned is spent / amount * 100 rounded to two
\* decimals, and the alert is decided by the unrounded ratio: "100" when
\* spent >= amount, else "80" when spent >= 0.8 amount, else "50" when
\* spent >= 0.5 amount, else none; without a budget: budget 0, percent 0, none.
C4_PercentRounded ==
  /\ UsageWithoutBudget
  /\ (UsageAnswered /\ BudgetOf(resp.args.month) > 0)
     => LET amount == BudgetOf(resp.args.month)
            spent == SpentIn(resp.args.month)
            alert == resp.body.alert
        IN  /\ resp.body.budget = amount
            /\ 2 * Abs(resp.body.percent * amount - spent * 10000) <= amount
            /\ alert \in {None, Str(<<"5", "0">>), Str(<<"8", "0">>), Str(<<"1", "0", "0">>)}
            /\ alert = Str(<<"1", "0", "0">>) <=> spent >= amount
            /\ alert = Str(<<"8", "0">>) <=> (spent < amount /\ 5 * spent >= 4 * amount)
            /\ alert = Str(<<"5", "0">>) <=> (5 * spent < 4 * amount /\ 2 * spent >= amount)

\* 24.999 spent of 25.0: the percent returned is 100.0 and the alert is "80"
C4_Witness ==
  /\ UsageAnswered
  /\ resp.body.budget = 25000
  /\ resp.body.percent = 10000
  /\ resp.body.alert = Str(<<"8", "0">>)

\* at most one budget document per month
OneBudgetPerMonth == \A a \in budget : \A b \in budget : a.month = b.month => a = b

\* what one answered upsert does to the budget collection
UpsertStep ==
  (resp'.op = "upsert_budget" /\ resp'.status = 200)
  => LET m == resp'.args.month
         old == {b \in budget : b.month = m}
         new == {b \in budget' : b.month = m}
     IN  /\ Cardinality(new) = 1
         /\ {b \in budget' : b.month # m} = {b \in budget : b.month # m}
         /\ \A n \in new :
              /\ n.amount = resp'.args.payload.amount
              /\ n.per_category = resp'.args.payload.per_category
              /\ old = {} => n.created_at = utcnow /\ n \notin budget
              /\ \A o \in old : n.created_at = o.created_at /\ n["_id"] = o["_id"]

\* C5: after any sequence of upsert_budget calls there is at most one budget
\* document per month; an upsert of a month not stored creates exactly one
\* document with created_at set; an upsert of a stored month replaces amount
\* and per_category and leaves created_at and every other month's budget alone.
C5_UpsertSemantics == [](OneBudgetPerMonth) /\ [][UpsertStep]_vars

\* a stored month upserted again, later, with another amount, beside another
\* month's budget
C5_Witness ==
  /\ resp.op = "upsert_budget" /\ resp.status = 200
  /\ Cardinality(budget) = 2
  /\ clock = 2
  /\ resp.docs[1].created_at = Instants[1]
  /\ resp.docs[1].amount = 25000

----------------------------------------------------------------------------
(* Requests of the dashboard and analytics specification *)

Food == <<"F", "o", "o", "d">>

CategoryPayloads ==
  {[name |-> Food, icon |-> None, color |-> None, is_custom |-> TRUE],
   [name |-> <<>>, icon |-> None, color |-> None, is_custom |-> TRUE]}

DashBase == [BasePayload EXCEPT !.date = DT(2024, 3, 2, 100)]

\* category ids, an amount at a rounding tie, and dates at and just before
\* the start of the week window
DashExpenses ==
  {[DashBase EXCEPT !.category_id = c] : c \in {None, Str(NewObjectId(0).v), Str(<<>>)}}
    \cup {[DashBase EXCEPT !.category_id = Str(Malformed), !.amount = 2000],
          [DashBase EXCEPT !.amount = 1005, !.date = DT(2024, 3, 1, 0)],
          [DashBase EXCEPT !.date = DT(2024, 2, 26, 0)],
          [DashBase EXCEPT !.amount = 4, !.date = DT(2024, 2, 25, 86399)]}

Periods == {Day, Week, Month, Year, Malformed}

NextDashboard ==
  \/ \E p \in DashExpenses : create_expense(p)
  \/ \E p \in CategoryPayloads : create_category(p)
  \/ delete_category(NewObjectId(0).v)
  \/ \E period \in Periods : dashboard(period)

SpecDashboard == Init /\ [][NextDashboard]_vars

\* amounts below a cent and at a rounding tie, dates at the ends of months
\* and years
MonthlyExpenses ==
  {[BasePayload EXCEPT !.amount = 4, !.date = DT(2024, 3, 2, 100)],
   [BasePayload EXCEPT !.amount = 1005, !.date = DT(2024, 3, 31, 86399)],
   [BasePayload EXCEPT !.date = DT(2024, 3, 1, 0)],
   [BasePayload EXCEPT !.date = DT(2024, 12, 31, 86399)],
   [BasePayload EXCEPT !.date = DT(2023, 12, 31, 86399)],
   [BasePayload EXCEPT !.date = DT(2025, 1, 1, 0)]}

Years == {2023, 2024, 9999}

NextAnalytics ==
  \/ \E p \in MonthlyExpenses : create_expense(p)
  \/ \E year \in Years : analytics_monthly(year)

SpecAnalytics == Init /\ [][NextAnalytics]_vars

----------------------------------------------------------------------------
(* Claims about analytics_monthly (SpecAnalytics) and the dashboard
   (SpecDashboard) *)

\* the amounts of the expenses dated in month m of year Y, in thousandths
SpentInMonth(Y, m) == SumAmounts({e \in expense : e.date.y = Y /\ e.date.m = m})

TwoDigits(m) == <<HexDigit(m \div 10), HexDigit(m % 10)>>

\* twelve entries labelled Y-01 .. Y-12 in order
TwelveMonths(Y) ==
  /\ Len(resp.body.results) = 12
  /\ \A m \in 1..12 : resp.body.results[m].month = DecStr(Y) \o <<"-">> \o TwoDigits(m)

\* C6 as stated: analytics_monthly for any year Y returns exactly 12 entries
\* ordered Y-01 to Y-12, entry m's total being the sum of the amounts of the
\* expenses dated in month m of Y, and 0.0 for a month without expenses.
C6_MonthlyTotalsExact ==
  resp.op = "analytics_monthly"
  => /\ resp.status = 200
     /\ TwelveMonths(resp.args.year)
     /\ \A m \in 1..12 : resp.body.results[m].total * 10 = SpentInMonth(resp.args.year, m)

\* C6 amended: for a year Y in 1..9998 the 12 entries Y-01 .. Y-12 are returned
\* and entry m's total is that sum rounded to two decimals (0.0 for a month
\* without expenses).
C6_MonthlyTotalsRounded ==
  (resp.op = "analytics_monthly" /\ resp.args.year >= 1 /\ resp.args.year <= 9998)
  => /\ resp.status = 200
     /\ TwelveMonths(resp.args.year)
     /\ \A m \in 1..12 :
          LET sum == SpentInMonth(resp.args.year, m)
              total == resp.body.results[m].total
          IN  /\ 2 * Abs(total * 10 - sum) <= 10
              /\ sum = 0 => total = 0

\* 2024 with an expense at midnight of March 1st and one on December 31st
C6_Witness ==
  /\ resp.op = "analytics_monthly" /\ resp.status = 200
  /\ resp.args.year = 2024
  /\ \E e \in expense : e.date = DT(2024, 3, 1, 0)
  /\ \E e \in expense : e.date = DT(2024, 12, 31, 86399)
  /\ resp.body.results[2].total = 0
  /\ resp.body.results[3].total = 100
  /\ resp.body.results[12].total = 100

\* the expenses of the dashboard window of the last response
Windowed == {e \in expense : ~DtLT(e.date, WindowStart(resp.args.period, utcnow))}

\* how a stored category_id shows in a breakdown entry
Shown(k) == IF k = None \/ k = Str(<<>>) THEN None ELSE Str(k.v)

Breakdown == resp.body.breakdown

DashboardAnswered == resp.op = "dashboard" /\ resp.status = 200

\* an entry's name is that of the category its id names, null when there is none
NamesResolved ==
  \A i \in 1..Len(Breakdown) :
    LET named == {c \in category : Str(c["_id"].v) = Breakdown[i].category_id}
    IN  /\ named = {} => Breakdown[i].category_name = None
        /\ \A c \in named : Breakdown[i].category_name = Str(c.name)

SortedByTotal == \A i \in 1..(Len(Breakdown) - 1) : Breakdown[i + 1].total <= Breakdown[i].total

\* C8 as stated: one breakdown entry per distinct category_id among the
\* expenses dated from the window start, its total the sum of their amounts;
\* the expenses without category_id form a single entry keyed by null; entries
\* are sorted by total descending; category_name is null when the category_id
\* is not in the category set.
C8_BreakdownExact ==
  DashboardAnswered
  => /\ Len(Breakdown) = Cardinality({e.category_id : e \in Windowed})
     /\ \A k \in {e.category_id : e \in Windowed} :
          \E i \in 1..Len(Breakdown) :
            /\ Breakdown[i].category_id = Shown(k)
            /\ Breakdown[i].total * 10 = SumAmounts({e \in Windowed : e.category_id = k})
     /\ Cardinality({i \in 1..Len(Breakdown) : Breakdown[i].category_id = None}) <= 1
     /\ SortedByTotal
     /\ NamesResolved

\* C8 amended: each entry's total is the sum of its group's amounts rounded to
\* two decimals; the expenses whose category_id is null form one entry and
\* those whose category_id is the empty string another, both shown with
\* category_id null; the rest as stated.
C8_BreakdownRounded ==
  DashboardAnswered
  => /\ Len(Breakdown) = Cardinality({e.category_id : e \in Windowed})
     /\ \A k \in {e.category_id : e \in Windowed} :
          \E i \in 1..Len(Breakdown) :
            /\ Breakdown[i].category_id = Shown(k)
            /\ 2 * Abs(Breakdown[i].total * 10 - SumAmounts({e \in Windowed : e.category_id = k})) <= 10
     /\ Cardinality({i \in 1..Len(Breakdown) : Breakdown[i].category_id = None})
          = Cardinality({e.category_id : e \in Windowed} \cap {None, Str(<<>>)})
     /\ SortedByTotal
     /\ NamesResolved

\* an expense with an unparseable category_id and one without category: two
\* entries, the larger first, no category name
C8_Witness ==
  /\ DashboardAnswered
  /\ Cardinality(Windowed) = 2
  /\ Len(Breakdown) = 2
  /\ Breakdown[1] = [category_id |-> Str(Malformed), category_name |-> None, total |-> 200]
  /\ Breakdown[2].category_id = None
  /\ Breakdown[2].total = 100

----------------------------------------------------------------------------
(* Single-record operations (SpecCrud) *)

Bills == <<"B", "i", "l", "l", "s">>

CategoryUpdates ==
  {[name |-> Bills, icon |-> Str(<<"x">>), color |-> None, is_custom |-> FALSE],
   [name |-> <<>>, icon |-> None, color |-> None, is_custom |-> TRUE]}

NextCrud ==
  \/ \E p \in CategoryPayloads : create_category(p)
  \/ \E i \in IdInputs, p \in CategoryUpdates : update_category(i, p)
  \/ \E i \in IdInputs : delete_category(i)
  \/ list_categories
  \/ \E p \in {BasePayload, [BasePayload EXCEPT !.amount = 0]} : create_expense(p)
  \/ \E i \in IdInputs : get_expense(i)
  \/ \E i \in IdInputs, p \in UpdatePayloads : update_expense(i, p)
  \/ \E i \in IdInputs : delete_expense(i)
  \/ Tick

SpecCrud == Init /\ [][NextCrud]_vars

CategoryByIdOps == {"update_category", "delete_category"}
ExpenseByIdOps == {"get_expense", "update_expense", "delete_expense"}

\* the request passed schema validation
BodyValid(r) ==
  /\ r.op = "update_category" => CategoryValid(r.args.payload)
  /\ r.op = "update_expense" => ExpenseValid(r.args.payload)

\* the identifier is not 24 hexadecimal digits
MalformedId(id) == Len(id) # 24 \/ \E i \in 1..Len(id) : id[i] \notin HexChars

\* the records of the collection the operation addresses that have this id
Addressed(r) ==
  {d \in (IF r.op \in CategoryByIdOps THEN category ELSE expense) :
     d["_id"].v = LowerStr(r.args.id)}

ByIdStep ==
  (resp'.op \in CategoryByIdOps \cup ExpenseByIdOps /\ BodyValid(resp'))
  => /\ MalformedId(resp'.args.id)
          => /\ resp'.status = 400
             /\ <<category, expense, budget>>' = <<category, expense, budget>>
     /\ (~MalformedId(resp'.args.id) /\ Addressed(resp') = {})
          => /\ resp'.status = 404
             /\ <<category, expense, budget>>' = <<category, expense, budget>>

\* C9: for GET/PUT/DELETE by id on categories and expenses a malformed id
\* yields 400 and a well-formed id matching no record yields 404, the store
\* being left unchanged in both cases (PUT on a missing id creates nothing).
C9_ByIdErrors == [][ByIdStep]_vars

\* PUT of a valid body on a well-formed id no expense has, beside a stored
\* expense and a stored category
C9_Witness ==
  /\ resp.op = "update_expense" /\ resp.status = 404
  /\ ExpenseValid(resp.args.payload)
  /\ Cardinality(expense) = 1
  /\ category # {}

----------------------------------------------------------------------------
(* Two list_categories requests at once (SpecRace) *)

Threads == {1, 2}

NextRace ==
  \/ \E w \in Threads : ListFind(w)
  \/ \E w \in Threads : ListSeed(w)
  \/ \E w \in Threads : ListReturn(w)
  \/ \E p \in CategoryPayloads : create_category(p)
  \/ \E p \in CategoryUpdates : update_category(NewObjectId(0).v, p)
  \/ delete_category(NewObjectId(0).v)

SpecRace == Init /\ [][NextRace]_vars

DefaultNames == {DEFAULT_CATEGORIES[i].name : i \in 1..Len(DEFAULT_CATEGORIES)}

Stored(name) == Cardinality({c \in category : c.name = name /\ ~c.is_custom})

\* what a list_categories call does to the collection once it has read it:
\* nothing if it read a non-empty collection, else one insert of the seven
\* defaults, whatever the collection holds by then
SeedStep ==
  \A w \in Threads :
    (pc[w] = "found" /\ pc'[w] # "found")
    => IF seen[w] # {}
       THEN category' = category
       ELSE /\ pc'[w] = "seeded"
            /\ category \subseteq category'
            /\ \A n \in DefaultNames :
                 Cardinality({c \in category' \ category : c.name = n}) = 1
            /\ Cardinality(category' \ category) = Len(DEFAULT_CATEGORIES)

\* C10: seeding is not guarded against a race: a call that read a non-empty
\* collection inserts nothing (sequential calls seed once), but a call that
\* read the empty collection inserts the seven defaults even if another call
\* has seeded meanwhile, so two concurrent calls can store each default twice.
C10_SeedAfterEmptyRead == [][SeedStep]_vars

\* both calls read the empty collection and both seeded: each default name is
\* stored twice
C10_Witness ==
  /\ \A n \in DefaultNames : Stored(n) = 2
  /\ \A w \in Threads : pc[w] = "seeded"

----------------------------------------------------------------------------
(* The store unavailable (SpecDown) *)

InitDown ==
  /\ db = "none"
  /\ category = {}
  /\ expense = {}
  /\ budget = {}
  /\ nextId = 0
  /\ clock = 1
  /\ resp = Fail("none", NoArgs, 0, "")
  /\ written = {}
  /\ pc = [w \in {1, 2} |-> "idle"]
  /\ seen = [w \in {1, 2} |-> {}]

NextDown ==
  \/ list_categories
  \/ \E p \in CategoryPayloads : create_category(p)
  \/ \E i \in IdInputs, p \in CategoryUpdates : update_category(i, p)
  \/ \E i \in IdInputs : delete_category(i)
  \/ \E qr \in Queries : list_expenses(qr)
  \/ \E p \in ExpensePayloads \cup BudgetExpenses \cup DashExpenses : create_expense(p)
  \/ \E i \in IdInputs : get_expense(i)
  \/ \E i \in IdInputs, p \in UpdatePayloads : update_expense(i, p)
  \/ \E i \in IdInputs : delete_expense(i)
  \/ \E m \in PathMonths : get_budget(m)
  \/ \E m \in PathMonths, p \in BudgetPayloads : upsert_budget(m, p)
  \/ \E m \in PathMonths : budget_usage(m)
  \/ \E period \in Periods : dashboard(period)
  \/ \E year \in Years : analytics_monthly(year)
  \/ Tick

SpecDown == InitDown /\ [][NextDown]_vars

\* C3: with db None every handler that touches storage fails at its start
\* with the 500 error "Database not configured", performs no store operation
\* and returns no success value.
C3_NotConfiguredEverywhere ==
  (db = "none" /\ resp.op # "none" /\ resp.status # 422)
  => /\ resp.status = 500
     /\ resp.detail = "Database not configured"
     /\ category = {} /\ expense = {} /\ budget = {}

====
